---- MODULE Spec2Model ----
(***************************************************************************)
(* Model of auto-ingress-operator.py: the kopf handler manage_ingress,     *)
(* which keeps the Ingress auto-ingress-<name>-http in step with the       *)
(* 'auto-ingress' annotation of a Service, and the Deleted handler         *)
(* log_service_deletion.                                                   *)
(*                                                                         *)
(* Python's None is modelled as the empty tuple <<>> and a present value v *)
(* as <<v>>; a dict is a function whose DOMAIN is the set of its keys.     *)
(* A handler invocation is a small process: the store calls it makes are   *)
(* its only suspension points, so each store call is one step.             *)
(***************************************************************************)
EXTENDS Integers, Sequences, FiniteSets, TLC

VARIABLES
    store,   \* the Ingress objects of the cluster: [namespace, name] -> <<>> or <<ingress>>
    inv,     \* the handler invocations: arguments, locals, position, call log
    hist,    \* what earlier runs for the same Service state left behind
    env      \* the cluster around the handler: deleted Services, order of the events,
             \* failures and crashes so far, the store at the first delivery

vars == <<store, inv, hist, env>>

----------------------------------------------------------------------------
(* Bounds of the model *)

\* longest ports list of a Service
MaxPorts == 2
\* how many times one Service state is reconciled in a row
MaxRuns == 2
\* how many store calls fail of themselves while one event is retried
MaxFaults == 2
\* how many times the handler is interrupted while one event is retried
MaxCrashes == 1

----------------------------------------------------------------------------
(* Python values *)

None == <<>>
Some(v) == <<v>>
EmptyDict == <<>>

\* dict.get(key): None when the key is missing
Get(d, key) == IF key \in DOMAIN d THEN Some(d[key]) ELSE None

\* as TruthyStr, but a test against None only
TruthyStr_not_none(o) == o # None

\* truth value of an optional string: None and "" are false
TruthyStr(o) == o # None /\ o[1] # ""

\* truth value of an optional integer: None and 0 are false
TruthyInt(o) == o # None /\ o[1] # 0

\* truth value of an optional list or dict: None and the empty one are false
TruthyColl(o) == o # None /\ DOMAIN o[1] # {}

----------------------------------------------------------------------------
(* Inputs *)

AUTO_INGRESS_ANNOTATION == "auto-ingress"

Namespaces == {"ns1", "ns2"}
ServiceNames == {"svc1", "svc2"}

\* the namespaces and Services whose events the sequential specification delivers
SeqNamespaces == {"ns1"}
SeqServiceNames == {"svc1"}

Paths == {"/a", "/b"}

\* metadata.annotations of a Service: without the key, with an empty value, with a path
AnnotationMaps ==
    {EmptyDict}
      \cup {[k \in {AUTO_INGRESS_ANNOTATION} |-> v] : v \in {""} \cup Paths}

\* one entry of spec.ports: 'name' and 'port' are each missing, falsy or set
PortEntries ==
    {EmptyDict, [name |-> "http"], [port |-> 80], [name |-> "http", port |-> 80],
     [name |-> "", port |-> 80], [name |-> "", port |-> 0]}

\* the entries after the first one
TailEntries == {[name |-> "metrics", port |-> 9090]}

RECURSIVE PortLists(_)
PortLists(n) ==
    IF n = 0 THEN {<<>>}
    ELSE IF n = 1 THEN {<<>>} \cup {<<p>> : p \in PortEntries}
    ELSE PortLists(n - 1)
           \cup {Append(l, t) : l \in {m \in PortLists(n - 1) : Len(m) = n - 1},
                                t \in TailEntries}

\* spec of a Service: without 'ports', or with a list of at most MaxPorts entries
ServiceSpecs == {EmptyDict} \cup {[ports |-> l] : l \in PortLists(MaxPorts)}

\* the prior body of an Updated event
OldBodies ==
    {[metadata |-> EmptyDict]}
      \cup {[metadata |-> [annotations |-> a]] : a \in AnnotationMaps}

Kinds == {"Created", "Updated", "Resumed"}

\* kopf passes old=None on create and resume, and the prior body on update
OldsOf(kind) == IF kind = "Updated" THEN {Some(b) : b \in OldBodies} ELSE {None}

UidOf(name) == "uid-" \o name

----------------------------------------------------------------------------
(* The Ingress definition, lines 29 and 57-108 *)

\* as ingress_name, but with the name of one Service written into it
ingress_name_fixed(name) == "auto-ingress-svc1-http"

\* line 29
ingress_name(name) == "auto-ingress-" \o name \o "-http"

\* as old_auto_ingress_path, but looking for 'annotations' at the top of the body
old_auto_ingress_path_toplevel(old) ==
    IF TruthyColl(old)
    THEN LET old_annotations == IF "annotations" \in DOMAIN old[1]
                                THEN old[1]["annotations"] ELSE EmptyDict
         IN  Get(old_annotations, AUTO_INGRESS_ANNOTATION)
    ELSE None

\* lines 33-37
old_auto_ingress_path(old) ==
    IF TruthyColl(old)
    THEN LET old_metadata == IF "metadata" \in DOMAIN old[1]
                             THEN old[1]["metadata"] ELSE EmptyDict
             old_annotations == IF "annotations" \in DOMAIN old_metadata
                                THEN old_metadata["annotations"] ELSE EmptyDict
         IN  Get(old_annotations, AUTO_INGRESS_ANNOTATION)
    ELSE None

\* line 44-47: True when the handler goes on past the ports check
HasPorts(spec) == TruthyColl(Get(spec, "ports"))

\* as FirstPortUsable, without the check of the first entry
FirstPortUsable_unchecked(spec) == TRUE

\* lines 50-55: True when the first port entry has a usable name or number
FirstPortUsable(spec) ==
    LET port_info == spec["ports"][1]
    IN  TruthyStr(Get(port_info, "name")) \/ TruthyInt(Get(port_info, "port"))

\* as backend_port, but preferring the number to the name
backend_port_number_first(spec) ==
    LET port_info == spec["ports"][1]
        service_port_name == Get(port_info, "name")
        service_port_number == Get(port_info, "port")
    IN  IF TruthyInt(service_port_number)
        THEN [name |-> None, number |-> service_port_number]
        ELSE [name |-> service_port_name, number |-> None]

\* line 59
backend_port(spec) ==
    LET port_info == spec["ports"][1]
        service_port_name == Get(port_info, "name")
        service_port_number == Get(port_info, "port")
    IN  IF TruthyStr(service_port_name)
        THEN [name |-> service_port_name, number |-> None]
        ELSE [name |-> None, number |-> service_port_number]

\* as ingress_def, but without the owner reference
ingress_def_unowned(name, uid, apiVersion, auto_ingress_path, spec) ==
    [api_version |-> "networking.k8s.io/v1",
     kind |-> "Ingress",
     metadata |->
        [name |-> ingress_name(name),
         annotations |->
            [k \in {"traefik.ingress.kubernetes.io/router.entrypoints"} |-> "web"],
         owner_references |-> <<>>],
     spec |->
        [rules |->
            << [http |->
                  [paths |->
                      << [path |-> auto_ingress_path,
                          path_type |-> "Prefix",
                          backend |->
                             [service |->
                                [name |-> name,
                                 port |-> backend_port(spec)]]] >>]] >>]]

\* lines 62-108
ingress_def(name, uid, apiVersion, auto_ingress_path, spec) ==
    [api_version |-> "networking.k8s.io/v1",
     kind |-> "Ingress",
     metadata |->
        [name |-> ingress_name(name),
         annotations |->
            [k \in {"traefik.ingress.kubernetes.io/router.entrypoints"} |-> "web"],
         owner_references |->
            << [api_version |-> apiVersion,
                kind |-> "Service",
                name |-> name,
                uid |-> uid,
                controller |-> TRUE,
                block_owner_deletion |-> TRUE] >>],
     spec |->
        [rules |->
            << [http |->
                  [paths |->
                      << [path |-> auto_ingress_path,
                          path_type |-> "Prefix",
                          backend |->
                             [service |->
                                [name |-> name,
                                 port |-> backend_port(spec)]]] >>]] >>]]

----------------------------------------------------------------------------
(* The Ingress store (kubernetes.client.NetworkingV1Api) *)

IngressNames == {ingress_name(n) : n \in ServiceNames}
\* names of Ingresses that do not follow the naming convention
OtherIngressNames == {"manual"}
Keys == Namespaces \X (IngressNames \cup OtherIngressNames)
SeqKeys == SeqNamespaces \X {ingress_name(n) : n \in SeqServiceNames}

\* statuses of the failures a store call can end in whatever the store holds
FaultStatuses == {403, 500}
NoFault == 0

\* line 116: the answer to a get
read_namespaced_ingress(st, namespace, name, fault) ==
    IF fault # NoFault THEN [status |-> fault, body |-> None]
    ELSE IF st[<<namespace, name>>] = None THEN [status |-> 404, body |-> None]
    ELSE [status |-> 200, body |-> st[<<namespace, name>>]]

\* as replace_namespaced_ingress, but a merge patch: the annotations of the stored
\* Ingress that the body does not set are kept
patch_namespaced_ingress(st, namespace, name, body, fault) ==
    IF fault # NoFault THEN [status |-> fault, store |-> st]
    ELSE IF st[<<namespace, name>>] = None THEN [status |-> 404, store |-> st]
    ELSE LET kept == st[<<namespace, name>>][1].metadata.annotations
             patched == [body EXCEPT !.metadata.annotations = @ @@ kept]
         IN  [status |-> 200,
              store |-> [st EXCEPT ![<<namespace, name>>] = Some(patched)]]

\* as replace_namespaced_ingress, but merging: the paths of the stored rule are kept
\* and those of the body added to them
replace_merging(st, namespace, name, body, fault) ==
    IF fault # NoFault THEN [status |-> fault, store |-> st]
    ELSE IF st[<<namespace, name>>] = None THEN [status |-> 404, store |-> st]
    ELSE LET kept == st[<<namespace, name>>][1].spec.rules[1].http.paths
             merged == [body EXCEPT !.spec.rules[1].http.paths = kept \o @]
         IN  [status |-> 200,
              store |-> [st EXCEPT ![<<namespace, name>>] = Some(merged)]]

\* line 125: the answer to a replace and the store it leaves (a full overwrite)
replace_namespaced_ingress(st, namespace, name, body, fault) ==
    IF fault # NoFault THEN [status |-> fault, store |-> st]
    ELSE IF st[<<namespace, name>>] = None THEN [status |-> 404, store |-> st]
    ELSE [status |-> 200,
          store |-> [st EXCEPT ![<<namespace, name>>] = Some(body)]]

\* line 128: the answer to a create and the store it leaves
create_namespaced_ingress(st, namespace, body, fault) ==
    IF fault # NoFault THEN [status |-> fault, store |-> st]
    ELSE IF st[<<namespace, body.metadata.name>>] # None
         THEN [status |-> 409, store |-> st]
    ELSE [status |-> 201,
          store |-> [st EXCEPT ![<<namespace, body.metadata.name>>] = Some(body)]]

\* line 142: the answer to a delete and the store it leaves
delete_namespaced_ingress(st, namespace, name, fault) ==
    IF fault # NoFault THEN [status |-> fault, store |-> st]
    ELSE IF st[<<namespace, name>>] = None THEN [status |-> 404, store |-> st]
    ELSE [status |-> 200, store |-> [st EXCEPT ![<<namespace, name>>] = None]]

\* an Ingress that may sit under a Service's Ingress name before the handler runs:
\* one this operator wrote for an earlier state of the Service, and a foreign one
StaleIngresses(name) ==
    {ingress_def(name, UidOf(name), "v1", "/old", [ports |-> <<[port |-> 8080]>>]),
     [api_version |-> "networking.k8s.io/v1",
      kind |-> "Ingress",
      metadata |-> [name |-> ingress_name(name),
                    annotations |-> [k \in {"made-by"} |-> "hand"],
                    owner_references |-> <<>>],
      spec |-> [rules |-> << [http |-> [paths |->
                  << [path |-> "/x", path_type |-> "Exact",
                      backend |-> [service |-> [name |-> "legacy",
                                                port |-> [name |-> None,
                                                          number |-> Some(81)]]]],
                     [path |-> "/y", path_type |-> "Prefix",
                      backend |-> [service |-> [name |-> name,
                                                port |-> [name |-> Some("web"),
                                                          number |-> None]]]] >>]] >>]]}

ServiceOfIngress(iname) == CHOOSE n \in ServiceNames : ingress_name(n) = iname

\* the stores an execution starts from: every slot of `keys` absent or stale
InitStores(keys) ==
    {st \in [Keys -> {None} \cup UNION {{Some(s) : s \in StaleIngresses(n)} : n \in ServiceNames}] :
        \A k \in Keys :
            /\ k \notin keys => st[k] = None
            /\ st[k] # None => st[k][1] \in StaleIngresses(ServiceOfIngress(k[2]))}

----------------------------------------------------------------------------
(* Handler invocations *)

Invs == {1, 2}
\* the invocation the sequential specification runs
SeqInvs == {1}

Idle ==
    [pc |-> "idle", kind |-> "Created", namespace |-> "ns1", name |-> "svc1",
     annotations |-> EmptyDict, spec |-> EmptyDict, uid |-> "", apiVersion |-> "v1",
     old |-> None, existing_ingress |-> None, calls |-> <<>>, status |-> 0,
     err |-> 0, warnings |-> 0, before |-> <<>>]

NoHist == [runs |-> 0, first |-> None]

NoEnv == [deleted |-> {}, latest |-> 0, faults |-> 0, crashes |-> 0, origin |-> <<>>]

Finished(i) == inv[i].pc \in {"idle", "done", "raised"}

\* the Ingress slot an invocation is about
SlotOf(r) == <<r.namespace, ingress_name(r.name)>>

\* lines 27, 40: the annotation value when it is present and non-empty
AnnotationPresent(annotations) == TruthyStr(Get(annotations, AUTO_INGRESS_ANNOTATION))

\* lines 44-55: no early return from the ports checks
PortsValid(spec) == HasPorts(spec) /\ FirstPortUsable(spec)

\* as FirstStep, but deleting the Ingress when the ports are of no use
FirstStep_delete_without_ports(annotations, spec, old) ==
    IF AnnotationPresent(annotations)
    THEN IF ~HasPorts(spec) THEN "delete"
         ELSE IF ~FirstPortUsable(spec) THEN "delete"
         ELSE "read"
    ELSE IF TruthyStr(old_auto_ingress_path(old)) THEN "delete"
         ELSE "done"

\* as FirstStep, but deleting whenever the annotation is absent
FirstStep_always_delete(annotations, spec, old) ==
    IF AnnotationPresent(annotations)
    THEN IF ~HasPorts(spec) THEN "done"
         ELSE IF ~FirstPortUsable(spec) THEN "done"
         ELSE "read"
    ELSE "delete"

\* lines 40-55, 135-152: where the handler stands when it has to wait for
\* the store for the first time, or "done" when it returns without a call
FirstStep(annotations, spec, old) ==
    IF AnnotationPresent(annotations)
    THEN IF ~HasPorts(spec) THEN "done"
         ELSE IF ~FirstPortUsable(spec) THEN "done"
         ELSE "read"
    ELSE IF TruthyStr(old_auto_ingress_path(old)) THEN "delete"
         ELSE "done"

\* lines 46, 54: the warnings logged on the way
Warnings(annotations, spec) ==
    IF AnnotationPresent(annotations) /\ ~PortsValid(spec) THEN 1 ELSE 0

\* the definition an invocation has computed, lines 57-108
DefOf(r) ==
    ingress_def(r.name, r.uid, r.apiVersion,
                Get(r.annotations, AUTO_INGRESS_ANNOTATION)[1], r.spec)

\* a run that returned without raising is recorded
HistAfter(h, st, r) ==
    [runs |-> h.runs + 1,
     first |-> IF h.first = None THEN Some(st[SlotOf(r)]) ELSE h.first]

\* lines 22-110, 134-139, 150-152: the handler from its entry to its first store call
Enter(i, kind, namespace, name, annotations, spec, old, h) ==
    LET pc == FirstStep(annotations, spec, old)
        r  == [pc |-> pc, kind |-> kind, namespace |-> namespace, name |-> name,
               annotations |-> annotations, spec |-> spec, uid |-> UidOf(name),
               apiVersion |-> "v1", old |-> old, existing_ingress |-> None,
               calls |-> <<>>, status |-> 0, err |-> 0,
               warnings |-> Warnings(annotations, spec), before |-> store]
    IN  /\ inv' = [inv EXCEPT ![i] = r]
        /\ hist' = IF pc = "done" THEN HistAfter(h, store, r) ELSE h
        /\ UNCHANGED store

\* an event for a Service is delivered: manage_ingress is called
manage_ingress(i) ==
    /\ \A j \in Invs : Finished(j)
    /\ \E kind \in Kinds, namespace \in SeqNamespaces, name \in SeqServiceNames,
          annotations \in AnnotationMaps, spec \in ServiceSpecs :
         \E old \in OldsOf(kind) :
            Enter(i, kind, namespace, name, annotations, spec, old, NoHist)

\* the same Service state is delivered again: a duplicate, a retry after a
\* raise, a resume after a restart, an update with another prior body
Redeliver(i) ==
    /\ \A j \in Invs : Finished(j)
    /\ inv[i].pc \in {"done", "raised"}
    /\ hist.runs < MaxRuns
    /\ \E kind \in Kinds :
         \E old \in OldsOf(kind) :
            Enter(i, kind, inv[i].namespace, inv[i].name, inv[i].annotations,
                  inv[i].spec, old, hist)

Call(op, namespace, name) == [op |-> op, namespace |-> namespace, name |-> name]

\* as read_pc, but re-raising a 404 like any other failure
read_pc_strict(status) == IF status = 200 THEN "write" ELSE "raised"

\* as read_pc, but taking every failure of the get for "not found"
read_pc_lenient(status) == "write"

\* lines 117-120: after the get, 404 is ignored and any other failure re-raised
read_pc(status) ==
    IF status = 200 THEN "write"
    ELSE IF status = 404 THEN "write"
    ELSE "raised"

\* as write_pc, but trying the write again after a failure
write_pc_retry(status) == IF status \in {200, 201} THEN "done" ELSE "write"

\* lines 130-132: any failure of the replace or the create is re-raised
write_pc(status) == IF status \in {200, 201} THEN "done" ELSE "raised"

\* as delete_pc, but re-raising a 404 like any other failure
delete_pc_strict(status) == IF status = 200 THEN "done" ELSE "raised"

\* lines 143-149: after the delete, 404 is logged and any other failure re-raised
delete_pc(status) ==
    IF status = 200 THEN "done"
    ELSE IF status = 404 THEN "done"
    ELSE "raised"

\* the invocation after a store call: the call is logged, the handler moves on
\* or raises the failure
After(r, pc, call, status) ==
    [r EXCEPT !.pc = pc, !.calls = Append(r.calls, call), !.status = status,
              !.err = IF pc = "raised" THEN status ELSE 0]

\* lines 113-120: the get, and what the handler makes of the answer
ReadIngress(i) ==
    /\ inv[i].pc = "read"
    /\ \E fault \in {NoFault} \cup FaultStatuses :
         LET r   == inv[i]
             res == read_namespaced_ingress(store, r.namespace, ingress_name(r.name), fault)
             nxt == After(r, read_pc(res.status),
                          Call("get", r.namespace, ingress_name(r.name)), res.status)
         IN  inv' = [inv EXCEPT ![i] =
                       IF res.status = 200
                       THEN [nxt EXCEPT !.existing_ingress = res.body]
                       ELSE nxt]
    /\ UNCHANGED <<store, hist>>

\* lines 122-132: replace when the get found an Ingress, create otherwise
WriteIngress(i) ==
    /\ inv[i].pc = "write"
    /\ \E fault \in {NoFault} \cup FaultStatuses :
         LET r   == inv[i]
             res == IF r.existing_ingress # None
                    THEN replace_namespaced_ingress(store, r.namespace,
                                                    ingress_name(r.name), DefOf(r), fault)
                    ELSE create_namespaced_ingress(store, r.namespace, DefOf(r), fault)
             op  == IF r.existing_ingress # None THEN "replace" ELSE "create"
             pc  == write_pc(res.status)
         IN  /\ store' = res.store
             /\ inv' = [inv EXCEPT ![i] =
                          After(r, pc, Call(op, r.namespace, DefOf(r).metadata.name),
                                res.status)]
             /\ hist' = IF pc = "done" THEN HistAfter(hist, res.store, r) ELSE hist

\* lines 141-149: the delete; a 404 answer counts as done
DeleteIngress(i) ==
    /\ inv[i].pc = "delete"
    /\ \E fault \in {NoFault} \cup FaultStatuses :
         LET r   == inv[i]
             res == delete_namespaced_ingress(store, r.namespace, ingress_name(r.name), fault)
             pc  == delete_pc(res.status)
         IN  /\ store' = res.store
             /\ inv' = [inv EXCEPT ![i] =
                          After(r, pc, Call("delete", r.namespace, ingress_name(r.name)),
                                res.status)]
             /\ hist' = IF pc = "done" THEN HistAfter(hist, res.store, r) ELSE hist

----------------------------------------------------------------------------
(* Events reconciled one after the other, each to its end *)

Init ==
    /\ store \in InitStores(SeqKeys)
    /\ inv = [i \in Invs |-> Idle]
    /\ hist = NoHist
    /\ env = NoEnv

Next ==
    /\ \E i \in SeqInvs :
          \/ manage_ingress(i)
          \/ Redeliver(i)
          \/ ReadIngress(i)
          \/ WriteIngress(i)
          \/ DeleteIngress(i)
    /\ UNCHANGED env

Spec == Init /\ [][Next]_vars

----------------------------------------------------------------------------
(* Deletion of a Service and the garbage collection of the cluster *)

\* the Service states the smaller specifications deliver
FewAnnotationMaps ==
    {EmptyDict} \cup {[k \in {AUTO_INGRESS_ANNOTATION} |-> v] : v \in {""} \cup Paths}
FewServiceSpecs ==
    {EmptyDict, [ports |-> <<[name |-> "http", port |-> 80]>>], [ports |-> <<[port |-> 80]>>]}

\* an event for one of the given Services is delivered while no handler runs
Deliver(i, namespaces, names, annotationMaps, specs, bodies) ==
    /\ \A j \in Invs : Finished(j)
    /\ \E kind \in Kinds, namespace \in namespaces, name \in names,
          annotations \in annotationMaps, spec \in specs :
         \E old \in OldsOf(kind) \cap ({None} \cup {Some(b) : b \in bodies}) :
            /\ <<namespace, UidOf(name)>> \notin env.deleted
            /\ Enter(i, kind, namespace, name, annotations, spec, old, NoHist)

\* lines 155-159: the Service is gone and the Deleted handler logs it; no store call
log_service_deletion(namespace, name) ==
    /\ \A j \in Invs : Finished(j)
    /\ <<namespace, UidOf(name)>> \notin env.deleted
    /\ env' = [env EXCEPT !.deleted = @ \cup {<<namespace, UidOf(name)>>}]
    /\ UNCHANGED <<store, inv, hist>>

\* the owners of an Ingress that are deleted Services of its namespace
GoneOwners(k) ==
    {n \in DOMAIN store[k][1].metadata.owner_references :
        <<k[1], store[k][1].metadata.owner_references[n].uid>> \in env.deleted}

\* the cluster removes an Ingress all of whose owners are gone (line 158)
GarbageCollect(k) ==
    /\ store[k] # None
    /\ store[k][1].metadata.owner_references # <<>>
    /\ GoneOwners(k) = DOMAIN store[k][1].metadata.owner_references
    /\ store' = [store EXCEPT ![k] = None]
    /\ UNCHANGED <<inv, hist, env>>

\* the Ingresses in the store at the start are the operator's own
GCInit ==
    /\ store \in {st \in InitStores(SeqKeys) :
                    \A k \in Keys : st[k] # None => st[k][1].metadata.owner_references # <<>>}
    /\ inv = [i \in Invs |-> Idle]
    /\ hist = NoHist
    /\ env = NoEnv

GCNext ==
    \/ /\ \E i \in SeqInvs :
            \/ Deliver(i, SeqNamespaces, SeqServiceNames, FewAnnotationMaps, FewServiceSpecs,
                       OldBodies)
            \/ ReadIngress(i)
            \/ WriteIngress(i)
            \/ DeleteIngress(i)
       /\ UNCHANGED env
    \/ \E namespace \in SeqNamespaces, name \in SeqServiceNames :
          log_service_deletion(namespace, name)
    \/ \E k \in Keys : GarbageCollect(k)

\* the garbage collector does not wait for ever
SpecGC == GCInit /\ [][GCNext]_vars /\ \A k \in Keys : WF_vars(GarbageCollect(k))

----------------------------------------------------------------------------
(* Two handler invocations for one Service whose store calls interleave *)

\* an event is delivered to a handler that has not run yet, whatever the
\* other one is doing; the events are delivered in their order
DeliverConcurrently(i) ==
    /\ inv[i].pc = "idle"
    /\ \A j \in Invs : j < i => inv[j].pc # "idle"
    /\ \E kind \in Kinds, namespace \in SeqNamespaces, name \in SeqServiceNames,
          annotations \in FewAnnotationMaps, spec \in FewServiceSpecs :
         \E old \in OldsOf(kind) :
            Enter(i, kind, namespace, name, annotations, spec, old, NoHist)
    /\ env' = [env EXCEPT !.latest = i]

\* one store call of a running handler
StoreCall(i) ==
    /\ \/ ReadIngress(i)
       \/ WriteIngress(i)
       \/ DeleteIngress(i)
    /\ UNCHANGED env

RaceInit ==
    /\ store \in InitStores(SeqKeys)
    /\ inv = [i \in Invs |-> Idle]
    /\ hist = NoHist
    /\ env = NoEnv

\* the store answers every call according to what it holds
RaceNext ==
    \E i \in Invs :
        \/ DeliverConcurrently(i)
        \/ StoreCall(i) /\ inv'[i].status \notin FaultStatuses

SpecRace == RaceInit /\ [][RaceNext]_vars

\* the store may also fail
FaultyRaceNext ==
    \E i \in Invs :
        \/ DeliverConcurrently(i)
        \/ StoreCall(i)

SpecFaultyRace == RaceInit /\ [][FaultyRaceNext]_vars

----------------------------------------------------------------------------
(* One event, delivered again whenever the handler raised or was interrupted *)

\* the event is delivered for the first time
FirstDelivery(i) ==
    /\ inv[i].pc = "idle"
    /\ \E kind \in Kinds, namespace \in SeqNamespaces, name \in SeqServiceNames,
          annotations \in AnnotationMaps, spec \in ServiceSpecs :
         \E old \in OldsOf(kind) :
            Enter(i, kind, namespace, name, annotations, spec, old, NoHist)
    /\ env' = [env EXCEPT !.origin = store]

\* one store call; the store fails of itself MaxFaults times at most
TransientStoreCall(i) ==
    /\ \/ ReadIngress(i)
       \/ WriteIngress(i)
       \/ DeleteIngress(i)
    /\ env' = [env EXCEPT !.faults =
                  IF inv'[i].status \in FaultStatuses THEN @ + 1 ELSE @]
    /\ env'.faults <= MaxFaults

\* the handler is interrupted before its next store call
Crash(i) ==
    /\ inv[i].pc \in {"read", "write", "delete"}
    /\ env.crashes < MaxCrashes
    /\ inv' = [inv EXCEPT ![i].pc = "crashed"]
    /\ env' = [env EXCEPT !.crashes = @ + 1]
    /\ UNCHANGED <<store, hist>>

\* the same event, with the same current and prior body, is delivered again
Retry(i) ==
    /\ inv[i].pc \in {"raised", "crashed"}
    /\ Enter(i, inv[i].kind, inv[i].namespace, inv[i].name, inv[i].annotations,
             inv[i].spec, inv[i].old, hist)
    /\ UNCHANGED env

RetryInit ==
    /\ store \in InitStores(SeqKeys)
    /\ inv = [i \in Invs |-> Idle]
    /\ hist = NoHist
    /\ env = NoEnv

RetryProgress ==
    \E i \in SeqInvs :
        \/ FirstDelivery(i)
        \/ TransientStoreCall(i)
        \/ Retry(i)

RetryNext ==
    \/ RetryProgress
    \/ \E i \in SeqInvs : Crash(i)

\* the event is delivered, the store answers and the retry comes, each in the end
SpecRetry == RetryInit /\ [][RetryNext]_vars /\ WF_vars(RetryProgress)

----------------------------------------------------------------------------
(* Several Services in several namespaces, next to Ingresses of other origin *)

\* an Ingress somebody made by hand under a name of no Service
ManualIngress ==
    [api_version |-> "networking.k8s.io/v1",
     kind |-> "Ingress",
     metadata |-> [name |-> "manual",
                   annotations |-> [k \in {"made-by"} |-> "hand"],
                   owner_references |-> <<>>],
     spec |-> [rules |-> << [http |-> [paths |->
                 << [path |-> "/m", path_type |-> "Exact",
                     backend |-> [service |-> [name |-> "svc1",
                                               port |-> [name |-> None,
                                                         number |-> Some(80)]]]] >>]] >>]]

\* the Ingress the operator wrote for an earlier state of the Service
EarlierIngress(name) ==
    ingress_def(name, UidOf(name), "v1", "/old", [ports |-> <<[port |-> 8080]>>])

FrameAnnotationMaps == {EmptyDict, [k \in {AUTO_INGRESS_ANNOTATION} |-> "/a"]}
FrameServiceSpecs == {[ports |-> <<[name |-> "http", port |-> 80]>>]}
FrameOldBodies == {[metadata |-> [annotations |-> a]] : a \in FrameAnnotationMaps}

\* every slot of a Service is absent or holds an earlier Ingress of the operator;
\* every other name holds a hand-made Ingress
FrameStores ==
    {st \in [Keys -> {None, Some(ManualIngress)}
                       \cup {Some(EarlierIngress(n)) : n \in ServiceNames}] :
        \A k \in Keys :
            IF k[2] \in OtherIngressNames THEN st[k] = Some(ManualIngress)
            ELSE \/ st[k] = None
                 \/ \E n \in ServiceNames :
                       k[2] = ingress_name(n) /\ st[k] = Some(EarlierIngress(n))}

FrameInit ==
    /\ store \in FrameStores
    /\ inv = [i \in Invs |-> Idle]
    /\ hist = NoHist
    /\ env = [NoEnv EXCEPT !.origin = store]

FrameNext ==
    /\ \E i \in SeqInvs :
          \/ Deliver(i, Namespaces, ServiceNames, FrameAnnotationMaps, FrameServiceSpecs,
                       FrameOldBodies)
          \/ ReadIngress(i)
          \/ WriteIngress(i)
          \/ DeleteIngress(i)
    /\ UNCHANGED env

SpecFrame == FrameInit /\ [][FrameNext]_vars

----------------------------------------------------------------------------
(* Vocabulary of the properties *)

Done(i) == inv[i].pc = "done"
Raised(i) == inv[i].pc = "raised"

\* the Ingress slot of the Service invocation i is about, now and at delivery
Slot(i) == store[SlotOf(inv[i])]
SlotBefore(i) == inv[i].before[SlotOf(inv[i])]

\* the name the Ingress of a Service is to have
ExpectedIngressName(name) == "auto-ingress-" \o name \o "-http"

\* the value of the current auto-ingress annotation, None when the key is missing
CurrentAnnotation(i) ==
    IF "auto-ingress" \in DOMAIN inv[i].annotations
    THEN Some(inv[i].annotations["auto-ingress"]) ELSE None

\* the value of the prior auto-ingress annotation, None without a prior body or key
PriorAnnotation(i) ==
    IF /\ inv[i].old # None
       /\ "metadata" \in DOMAIN inv[i].old[1]
       /\ "annotations" \in DOMAIN inv[i].old[1].metadata
       /\ "auto-ingress" \in DOMAIN inv[i].old[1].metadata.annotations
    THEN Some(inv[i].old[1].metadata.annotations["auto-ingress"]) ELSE None

NonEmpty(o) == o # None /\ o[1] # ""

\* the first entry of the ports, None when there is none
FirstPort(i) ==
    IF "ports" \in DOMAIN inv[i].spec /\ Len(inv[i].spec.ports) > 0
    THEN Some(inv[i].spec.ports[1]) ELSE None

NamedPort(p) == "name" \in DOMAIN p /\ p.name # ""
NumberedPort(p) == "port" \in DOMAIN p /\ p.port # 0

\* at least one port, and the first one has a name or a number
ValidPorts(i) ==
    FirstPort(i) # None /\ (NamedPort(FirstPort(i)[1]) \/ NumberedPort(FirstPort(i)[1]))

CallsOf(i, ops) == {k \in DOMAIN inv[i].calls : inv[i].calls[k].op \in ops}

ThePath(ing) == ing.spec.rules[1].http.paths[1]

----------------------------------------------------------------------------
(* C1: after a reconciliation that returned without raising, the Ingress    *)
(* auto-ingress-<name>-http exists if and only if the Service's current     *)
(* annotation is non-empty and its ports are valid.                         *)
C1_ExistsIffAnnotatedAndValid ==
    \A i \in SeqInvs :
        Done(i) => ((Slot(i) # None) <=> (NonEmpty(CurrentAnnotation(i)) /\ ValidPorts(i)))

(* C2: whenever the Ingress exists after a reconciliation that returned     *)
(* without raising and the Service carries the annotation, the path of the  *)
(* Ingress is the current annotation value and, when the first port is      *)
(* usable, its backend port is the current first port.                      *)
C2_ContentFresh ==
    \A i \in SeqInvs :
        (Done(i) /\ Slot(i) # None /\ NonEmpty(CurrentAnnotation(i))) =>
            /\ ThePath(Slot(i)[1]).path = CurrentAnnotation(i)[1]
            /\ ValidPorts(i) =>
                 LET p == FirstPort(i)[1]
                     port == ThePath(Slot(i)[1]).backend.service.port
                 IN  IF NamedPort(p) THEN port.name = Some(p.name)
                     ELSE port.number = Some(p.port)

(* C3: for a Service with a non-empty annotation and a valid first port,    *)
(* the Ingress a second (or later) successful run leaves is identical to    *)
(* the one the first successful run left, whatever the store held before.   *)
C3_UpsertIdempotent ==
    \A i \in SeqInvs :
        (Done(i) /\ NonEmpty(CurrentAnnotation(i)) /\ ValidPorts(i) /\ hist.runs >= 2) =>
            /\ Slot(i) # None
            /\ hist.first = Some(Slot(i))

\* a second run has replaced the Ingress the first run had put in place of a stale one
C3_Witness ==
    /\ Done(1) /\ NonEmpty(CurrentAnnotation(1)) /\ ValidPorts(1)
    /\ hist.runs >= 2
    /\ CallsOf(1, {"replace"}) # {}
    /\ hist.first = Some(Slot(1))
    /\ SlotBefore(1) = Slot(1)

(* C4: the Ingress state a successful run leaves is a function of the       *)
(* current Service state alone: every successful run for one Service state  *)
(* leaves what the first one left, whichever event kind and prior body      *)
(* delivered it.                                                            *)
C4_FunctionOfServiceState ==
    \A i \in SeqInvs :
        (Done(i) /\ hist.runs >= 2) => hist.first = Some(Slot(i))

(* C5: an Updated event whose prior body carries a non-empty annotation and *)
(* whose current annotations do not makes exactly one store call, a delete  *)
(* of auto-ingress-<name>-http in the Service's namespace, and the Ingress  *)
(* is absent once the handler has returned.                                 *)
C5_RemovalDeletesOnce ==
    \A i \in SeqInvs :
        (/\ inv[i].pc # "idle" /\ inv[i].kind = "Updated"
         /\ NonEmpty(PriorAnnotation(i)) /\ CurrentAnnotation(i) = None) =>
            /\ inv[i].pc \in {"delete", "done", "raised"}
            /\ inv[i].pc = "delete" => inv[i].calls = <<>>
            /\ inv[i].pc \in {"done", "raised"} =>
                 inv[i].calls = << [op |-> "delete", namespace |-> inv[i].namespace,
                                    name |-> ExpectedIngressName(inv[i].name)] >>
            /\ Done(i) => Slot(i) = None

\* the delete has removed an Ingress that was there
C5_Witness ==
    /\ Done(1) /\ inv[1].kind = "Updated"
    /\ NonEmpty(PriorAnnotation(1)) /\ CurrentAnnotation(1) = None
    /\ SlotBefore(1) # None /\ Slot(1) = None
    /\ Len(inv[1].calls) = 1

(* C6: when the delete is answered with 404 because the Ingress is already  *)
(* absent, the handler returns without raising (so no retry is asked for)   *)
(* and the store is as it was.                                              *)
C6_DeleteNotFoundIsDone ==
    \A i \in SeqInvs :
        (/\ inv[i].calls # <<>>
         /\ inv[i].calls[Len(inv[i].calls)].op = "delete"
         /\ inv[i].status = 404) =>
            /\ Done(i)
            /\ inv[i].err = 0
            /\ store = inv[i].before
            /\ Slot(i) = None

\* a removal found the Ingress already gone
C6_Witness ==
    /\ Done(1) /\ inv[1].status = 404
    /\ CallsOf(1, {"delete"}) # {}
    /\ SlotBefore(1) = None
    /\ NonEmpty(PriorAnnotation(1))

(* C7: one invocation makes at most one mutating store call (a create, a    *)
(* replace or a delete) and at most one get, and the get comes first.       *)
C7_AtMostOneMutation ==
    \A i \in SeqInvs :
        /\ Cardinality(CallsOf(i, {"create", "replace", "delete"})) <= 1
        /\ Cardinality(CallsOf(i, {"get"})) <= 1
        /\ CallsOf(i, {"get"}) \subseteq {1}
        /\ CallsOf(i, {"get"}) # {} => CallsOf(i, {"delete"}) = {}
        /\ CallsOf(i, {"create", "replace"}) # {} => CallsOf(i, {"get"}) = {1}

\* a get followed by a write that the store refused
C7_Witness ==
    /\ Raised(1) /\ inv[1].err = 500
    /\ Len(inv[1].calls) = 2
    /\ inv[1].calls[1].op = "get" /\ inv[1].calls[2].op = "create"

(* C8: with a non-empty annotation and no ports, or a first port with       *)
(* neither name nor number, the handler makes no store call, returns        *)
(* without raising and leaves the store as it was, whatever the prior body. *)
C8_InvalidPortsNoCall ==
    \A i \in SeqInvs :
        (inv[i].pc # "idle" /\ NonEmpty(CurrentAnnotation(i)) /\ ~ValidPorts(i)) =>
            /\ Done(i)
            /\ inv[i].calls = <<>>
            /\ store = inv[i].before

\* an update that had the annotation before, with a first port that says nothing,
\* while an Ingress is in the store
C8_Witness ==
    /\ Done(1) /\ NonEmpty(CurrentAnnotation(1))
    /\ FirstPort(1) = Some(EmptyDict)
    /\ NonEmpty(PriorAnnotation(1))
    /\ Slot(1) # None
    /\ inv[1].warnings = 1

(* C9: with the annotation absent now and no prior annotation (no prior     *)
(* body, or a prior body without it) the handler makes no store call and    *)
(* leaves the store as it was.                                              *)
C9_NoAnnotationNoCall ==
    \A i \in SeqInvs :
        (inv[i].pc # "idle" /\ CurrentAnnotation(i) = None /\ PriorAnnotation(i) = None) =>
            /\ Done(i)
            /\ inv[i].calls = <<>>
            /\ store = inv[i].before

\* a resume without the annotation while an Ingress is in the store
C9_Witness ==
    /\ Done(1) /\ inv[1].kind = "Resumed"
    /\ CurrentAnnotation(1) = None /\ inv[1].old = None
    /\ Slot(1) # None

(* C10: the definition a create or replace has written has the name         *)
(* auto-ingress-<name>-http, one rule with exactly one path, the annotation *)
(* value, of type Prefix, the Service's name as backend, and as backend     *)
(* port the name of the first port when it has one, its number otherwise;   *)
(* the later ports play no part.                                            *)
C10_ProducedDefinition ==
    \A i \in SeqInvs :
        (Done(i) /\ CallsOf(i, {"create", "replace"}) # {}) =>
            /\ NonEmpty(CurrentAnnotation(i)) /\ ValidPorts(i)
            /\ Slot(i) # None
            /\ LET ing == Slot(i)[1]
                   p == FirstPort(i)[1]
               IN  /\ ing.metadata.name = ExpectedIngressName(inv[i].name)
                   /\ Len(ing.spec.rules) = 1
                   /\ Len(ing.spec.rules[1].http.paths) = 1
                   /\ ThePath(ing).path = CurrentAnnotation(i)[1]
                   /\ ThePath(ing).path_type = "Prefix"
                   /\ ThePath(ing).backend.service.name = inv[i].name
                   /\ ThePath(ing).backend.service.port =
                        IF NamedPort(p) THEN [name |-> Some(p.name), number |-> None]
                        ELSE [name |-> None, number |-> Some(p.port)]

\* a create for a Service with two ports, the first with a name and a number
C10_Witness ==
    /\ Done(1) /\ CallsOf(1, {"create"}) # {}
    /\ Len(inv[1].spec.ports) = 2
    /\ NamedPort(inv[1].spec.ports[1]) /\ NumberedPort(inv[1].spec.ports[1])
    /\ ThePath(Slot(1)[1]).backend.service.port = [name |-> Some("http"), number |-> None]

(* C11: an Ingress written by manage_ingress carries exactly one owner       *)
(* reference, with the name and uid of the reconciled Service,              *)
(* controller=true and blockOwnerDeletion=true; the Deleted handler makes   *)
(* no store call; and once the Service is deleted the garbage collector     *)
(* of the cluster sees to it that the Ingress is eventually absent.         *)
OwnedByService(i) ==
    LET refs == Slot(i)[1].metadata.owner_references
    IN  /\ Len(refs) = 1
        /\ refs[1].name = inv[i].name
        /\ refs[1].uid = inv[i].uid
        /\ refs[1].kind = "Service"
        /\ refs[1].controller = TRUE
        /\ refs[1].block_owner_deletion = TRUE

C11_OwnedAndCollected ==
    /\ [](\A i \in SeqInvs :
            (Done(i) /\ CallsOf(i, {"create", "replace"}) # {} /\ Slot(i) # None) =>
                OwnedByService(i))
    /\ [][env'.deleted # env.deleted => (store' = store /\ inv' = inv)]_vars
    /\ \A namespace \in SeqNamespaces, name \in SeqServiceNames :
          (<<namespace, "uid-" \o name>> \in env.deleted)
             ~> (store[<<namespace, ExpectedIngressName(name)>>] = None)

\* the Service is deleted, its Ingress, written by the handler, was in the store and is gone
C11_Witness ==
    /\ Done(1) /\ CallsOf(1, {"create"}) # {}
    /\ <<inv[1].namespace, inv[1].uid>> \in env.deleted
    /\ Slot(1) = None

(* C12: in the upsert path the get for auto-ingress-<name>-http comes       *)
(* before any write and its answer, not anything remembered, decides: not   *)
(* found leads to exactly one create, found to exactly one replace, and the *)
(* replace leaves the freshly computed definition and nothing of the        *)
(* Ingress that was stored.                                                 *)
ExpectedDefinition(i) ==
    [api_version |-> "networking.k8s.io/v1",
     kind |-> "Ingress",
     metadata |->
        [name |-> ExpectedIngressName(inv[i].name),
         annotations |->
            [k \in {"traefik.ingress.kubernetes.io/router.entrypoints"} |-> "web"],
         owner_references |->
            << [api_version |-> "v1", kind |-> "Service", name |-> inv[i].name,
                uid |-> inv[i].uid, controller |-> TRUE,
                block_owner_deletion |-> TRUE] >>],
     spec |->
        [rules |->
            << [http |-> [paths |->
                  << [path |-> CurrentAnnotation(i)[1],
                      path_type |-> "Prefix",
                      backend |-> [service |->
                         [name |-> inv[i].name,
                          port |-> IF NamedPort(FirstPort(i)[1])
                                   THEN [name |-> Some(FirstPort(i)[1].name), number |-> None]
                                   ELSE [name |-> None,
                                         number |-> Some(FirstPort(i)[1].port)]]]] >>]] >>]]

C12_UpsertDispatch ==
    \A i \in SeqInvs :
        /\ inv[i].pc = "read" => inv[i].calls = <<>>
        /\ inv[i].pc = "write" =>
              /\ inv[i].calls = << [op |-> "get", namespace |-> inv[i].namespace,
                                   name |-> ExpectedIngressName(inv[i].name)] >>
              /\ inv[i].existing_ingress = SlotBefore(i)
        /\ CallsOf(i, {"create", "replace"}) # {} =>
              /\ Len(inv[i].calls) = 2
              /\ inv[i].calls[1].op = "get"
              /\ inv[i].calls[2].op = IF SlotBefore(i) = None THEN "create" ELSE "replace"
              /\ Done(i) => Slot(i) = Some(ExpectedDefinition(i))

\* a replace has overwritten a hand-made Ingress that had other annotations, no owner
\* and two paths
C12_Witness ==
    /\ Done(1) /\ CallsOf(1, {"replace"}) = {2}
    /\ SlotBefore(1) # None
    /\ SlotBefore(1)[1].metadata.owner_references = <<>>
    /\ Slot(1) = Some(ExpectedDefinition(1))

(* C13: a get that fails with a status other than 404 makes the handler     *)
(* raise without a create or replace; a create, replace or delete that      *)
(* fails (a 404 on delete apart) makes it raise as well; the status raised  *)
(* is the one of the failed call, that call is the last one of the          *)
(* invocation, and the step that raises leaves the store as it was.         *)
LastCall(i) == inv[i].calls[Len(inv[i].calls)]

CallFailed(i) ==
    /\ inv[i].calls # <<>>
    /\ inv[i].status \notin {200, 201}
    /\ ~(inv[i].status = 404 /\ LastCall(i).op \in {"get", "delete"})

C13_FailuresRaised ==
    /\ [](\A i \in Invs :
            /\ CallFailed(i) =>
                  /\ Raised(i)
                  /\ inv[i].err = inv[i].status
                  /\ LastCall(i).op = "get" => Len(inv[i].calls) = 1
            /\ Raised(i) => CallFailed(i))
    /\ [][\A i \in Invs :
            (inv'[i].pc = "raised" /\ inv[i].pc # "raised") => store' = store]_vars

\* a create answered with 409 because the other invocation had created the Ingress
C13_Witness ==
    /\ Raised(2) /\ inv[2].err = 409
    /\ LastCall(2).op = "create"
    /\ Done(1) /\ CallsOf(1, {"create"}) # {}

(* C14: the handler calls create or replace only when the current           *)
(* annotation is present and the first port valid, and delete only when     *)
(* the current annotation is absent and the prior one was present; so an    *)
(* Ingress slot goes from absent to present only in such an upsert, and     *)
(* from present to absent only in such a removal or when the garbage        *)
(* collector takes the Ingress of a deleted Service.                        *)
UpsertCase(i) == NonEmpty(CurrentAnnotation(i)) /\ ValidPorts(i)
RemovalCase(i) == ~NonEmpty(CurrentAnnotation(i)) /\ NonEmpty(PriorAnnotation(i))

C14_SlotTransitions ==
    /\ [](\A i \in SeqInvs :
            /\ CallsOf(i, {"get", "create", "replace"}) # {} => UpsertCase(i)
            /\ CallsOf(i, {"delete"}) # {} => RemovalCase(i))
    /\ [][\A k \in Keys :
            /\ (store[k] = None /\ store'[k] # None) =>
                  \E i \in SeqInvs :
                     /\ k = <<inv[i].namespace, ExpectedIngressName(inv[i].name)>>
                     /\ inv[i].pc = "write" /\ inv'[i].pc = "done"
                     /\ UpsertCase(i)
            /\ (store[k] # None /\ store'[k] = None) =>
                  \/ \E i \in SeqInvs :
                        /\ k = <<inv[i].namespace, ExpectedIngressName(inv[i].name)>>
                        /\ inv[i].pc = "delete" /\ inv'[i].pc = "done"
                        /\ RemovalCase(i)
                  \/ /\ inv' = inv
                     /\ \E name \in ServiceNames :
                           /\ k[2] = ExpectedIngressName(name)
                           /\ <<k[1], "uid-" \o name>> \in env.deleted]_vars

\* a removal has taken away an Ingress that an upsert could have written
C14_Witness ==
    /\ Done(1) /\ RemovalCase(1)
    /\ CallsOf(1, {"delete"}) # {} /\ inv[1].status = 200
    /\ SlotBefore(1) # None /\ Slot(1) = None

(* C15: when an older and a newer Updated event of one Service, with        *)
(* different annotation values, are reconciled concurrently, then once both *)
(* have returned and nothing is in flight the Ingress carries the path and  *)
(* the backend of the newer event.                                          *)
C15_RaceSettlesToLatest ==
    (/\ env.latest = 2
     /\ inv[1].kind = "Updated" /\ inv[2].kind = "Updated"
     /\ UpsertCase(1) /\ UpsertCase(2)
     /\ CurrentAnnotation(1) # CurrentAnnotation(2)
     /\ PriorAnnotation(2) = CurrentAnnotation(1)
     /\ Done(1) /\ Done(2)) =>
        /\ Slot(2) # None
        /\ ThePath(Slot(2)[1]).path = CurrentAnnotation(2)[1]
        /\ ThePath(Slot(2)[1]).backend = ExpectedDefinition(2).spec.rules[1].http.paths[1].backend

(* C16: with a store that never fails of itself, two interleaved            *)
(* invocations for one Service never end in a fatal error: no create is     *)
(* answered 409 and no replace 404.                                         *)
C16_NoFatalErrorInRace ==
    \A i \in Invs :
        /\ ~Raised(i)
        /\ inv[i].status # 409
        /\ ~(inv[i].status = 404 /\ inv[i].calls # <<>> /\ LastCall(i).op = "replace")

(* C17: when the same event is delivered again after every raise and every  *)
(* interruption, and the store fails of itself only a bounded number of     *)
(* times, the handler eventually returns without raising, and the store is  *)
(* then what one uninterrupted run without failures would have left of the  *)
(* store of the first delivery.                                             *)
ExpectedStore(i) ==
    LET k == <<inv[i].namespace, ExpectedIngressName(inv[i].name)>>
    IN  IF UpsertCase(i) THEN [env.origin EXCEPT ![k] = Some(ExpectedDefinition(i))]
        ELSE IF RemovalCase(i) THEN [env.origin EXCEPT ![k] = None]
        ELSE env.origin

C17_RetryConverges ==
    /\ [](\A i \in SeqInvs : Done(i) => store = ExpectedStore(i))
    /\ \A i \in SeqInvs : (inv[i].pc # "idle") ~> Done(i)

\* an upsert has got through after two failures of the store and an interruption
C17_Witness ==
    /\ Done(1) /\ UpsertCase(1)
    /\ env.faults = 2 /\ env.crashes = 1
    /\ env.origin[<<inv[1].namespace, ExpectedIngressName(inv[1].name)>>] = None
    /\ store = ExpectedStore(1)

(* C18: every store call of an invocation for Service <name> in <ns>        *)
(* names auto-ingress-<name>-http in <ns>; the name is injective in the     *)
(* Service name; so the invocation leaves every other Ingress as it found   *)
(* it, and an Ingress that does not follow the naming convention is never   *)
(* changed.                                                                 *)
C18_Frame ==
    /\ \A a, b \in ServiceNames : ingress_name(a) = ingress_name(b) => a = b
    /\ \A i \in SeqInvs :
          /\ \A n \in DOMAIN inv[i].calls :
                /\ inv[i].calls[n].namespace = inv[i].namespace
                /\ inv[i].calls[n].name = ExpectedIngressName(inv[i].name)
          /\ inv[i].pc # "idle" =>
                \A k \in Keys \ {<<inv[i].namespace, ExpectedIngressName(inv[i].name)>>} :
                    store[k] = inv[i].before[k]
    /\ \A k \in Keys : k[2] \in OtherIngressNames => store[k] = env.origin[k]

\* svc2 in ns2 has got its Ingress while svc1 in ns2 and svc2 in ns1 keep theirs
C18_Witness ==
    /\ Done(1) /\ inv[1].namespace = "ns2" /\ inv[1].name = "svc2"
    /\ CallsOf(1, {"create"}) # {}
    /\ store[<<"ns2", "auto-ingress-svc2-http">>] # None
    /\ store[<<"ns2", "auto-ingress-svc1-http">>] = Some(EarlierIngress("svc1"))
    /\ store[<<"ns1", "auto-ingress-svc2-http">>] = Some(EarlierIngress("svc2"))
    /\ store[<<"ns2", "manual">>] = Some(ManualIngress)

(* C19: an auto-ingress annotation with the empty string as value counts as *)
(* a missing one. As current value it never leads to a get, create or       *)
(* replace, and it leads to the delete exactly when the prior value was     *)
(* non-empty; as prior value, with no current annotation, it leads to no    *)
(* store call.                                                              *)
C19_EmptyIsAbsent ==
    \A i \in SeqInvs :
        /\ (inv[i].pc # "idle" /\ CurrentAnnotation(i) = Some("")) =>
              /\ CallsOf(i, {"get", "create", "replace"}) = {}
              /\ IF NonEmpty(PriorAnnotation(i))
                 THEN \/ inv[i].pc = "delete" /\ inv[i].calls = <<>>
                      \/ inv[i].pc \in {"done", "raised"} /\ CallsOf(i, {"delete"}) = {1}
                 ELSE Done(i) /\ inv[i].calls = <<>> /\ store = inv[i].before
        /\ (/\ inv[i].pc # "idle" /\ PriorAnnotation(i) = Some("")
            /\ CurrentAnnotation(i) \in {None, Some("")}) =>
              Done(i) /\ inv[i].calls = <<>> /\ store = inv[i].before

\* an update from '/a' to the empty value has deleted the Ingress
C19_Witness ==
    /\ Done(1) /\ CurrentAnnotation(1) = Some("")
    /\ NonEmpty(PriorAnnotation(1))
    /\ CallsOf(1, {"delete"}) = {1}
    /\ SlotBefore(1) # None /\ Slot(1) = None

====
